---------------------------- MODULE Spec2Model ----------------------------
(***************************************************************************)
(* LayerNormImpl::Compute (onnxruntime/core/providers/cpu/nn/               *)
(* layer_norm_impl.cc) as a state machine.                                  *)
(*                                                                          *)
(* One call of ComputeImpl<T>::operator() is a sequence of steps of the     *)
(* calling thread (Prepare, GetTempSpaceAllocator, MeanOutput,              *)
(* InvStdDevOutput, Submit, JoinAndReturn) with the per-row tasks of the    *)
(* parallel-for (TaskBegin, TaskEnd) interleaved between Submit and         *)
(* JoinAndReturn.                                                           *)
(*                                                                          *)
(* Buffers are functions over 0 .. n-1, as the C++ arrays are.  The          *)
(* element type T is abstracted to the integers: + - * are exact, / is      *)
(* floor division and sqrt is the integer square root.  The inputs are      *)
(* non-negative and epsilon >= 1, so no divisor is 0.                       *)
(***************************************************************************)
EXTENDS Integers, Sequences, FiniteSets, TLC

\* ------------------------------------------------------------- bounds
\* largest rank of X
MaxRank == 2
\* largest number of elements of X
MaxElems == 4
\* largest length of the scale and bias inputs
MaxLen == 3
\* largest number of per-row tasks in progress at once
MaxWorkers == 2
\* largest rank of X in the 64-bit shape specification
WideMaxRank == 2

\* ------------------------------------------------------------- values
\* the content of output or scratch memory that nothing wrote yet
Uninit == 0 - 999
\* heap_value before the call read past the end of a buffer
Unread == 0 - 1
\* what a read past the end of scale or bias can find there
Garbage == {0, 5}
\* the epsilon attribute values
Epsilons == {1}

XPattern(k) == (3 * (k + 1) * (k + 1)) % 11
ScalePattern(h) == h + 2
BiasPattern(h) == h + 10

Buffer(n, F(_)) == [k \in 0 .. n - 1 |-> F(k)]
UninitValue(k) == Uninit
BufLen(buf) == Cardinality(DOMAIN buf)
EmptyMap == [k \in {} |-> 0]

\* ------------------------------------------------------------- TensorShape
RECURSIVE ProdRange(_, _, _)
ProdRange(shape, lo, hi) ==
    IF lo > hi THEN 1 ELSE shape[lo] * ProdRange(shape, lo + 1, hi)

\* TensorShape::Size
Size(shape) == ProdRange(shape, 1, Len(shape))
\* TensorShape::SizeToDimension: the product of the dimensions 0 .. d-1
SizeToDimension(shape, d) == ProdRange(shape, 1, d)
\* TensorShape::SizeFromDimension: the product of the dimensions d .. rank-1
SizeFromDimension(shape, d) == ProdRange(shape, d + 1, Len(shape))

\* HandleNegativeAxis: the resolved axis
HandleNegativeAxis(a, rank) == IF a < 0 THEN a + rank ELSE a
\* HandleNegativeAxis: whether it accepts the resolved axis
IsAxisInRange(resolved, rank) == 0 <= resolved /\ resolved <= rank

ShapesOfRank(r) == {s \in [1 .. r -> 1 .. MaxElems] : Size(s) <= MaxElems}
Shapes == UNION {ShapesOfRank(r) : r \in 1 .. MaxRank}

\* ------------------------------------------------------------- 64-bit sizes
\* An int64_t size is held as m * 2^e with m odd: TLC's integers are 32-bit.
Pow2(k) == [m |-> 1, e |-> k]

RECURSIVE Exp2(_)
Exp2(k) == IF k = 0 THEN 1 ELSE 2 * Exp2(k - 1)

RECURSIVE Wide(_)
Wide(n) ==
    IF n % 2 = 0 /\ n # 0
    THEN LET w == Wide(n \div 2) IN [m |-> w.m, e |-> w.e + 1]
    ELSE [m |-> n, e |-> 0]

WMul(a, b) == [m |-> a.m * b.m, e |-> a.e + b.e]

RECURSIVE WProdRange(_, _, _)
WProdRange(shape, lo, hi) ==
    IF lo > hi THEN Pow2(0) ELSE WMul(shape[lo], WProdRange(shape, lo + 1, hi))

RECURSIVE BitLen(_)
BitLen(n) == IF n = 0 THEN 0 ELSE 1 + BitLen(n \div 2)

\* the value fits int64_t
FitsInt64(w) == w.e + BitLen(w.m) <= 63

\* static_cast<int32_t> of an int64_t m * 2^e, m < 2^15: the low 32 bits, signed
StaticCastInt32(w) ==
    IF w.e >= 32 THEN 0
    ELSE IF w.e <= 16 THEN w.m * Exp2(w.e)
    ELSE LET k == w.m % Exp2(32 - w.e) IN
         IF k >= Exp2(31 - w.e)
         THEN ((k - Exp2(32 - w.e)) * Exp2(w.e - 1)) * 2
         ELSE k * Exp2(w.e)

\* ------------------------------------------------------------- arithmetic of T
Div(a, b) == a \div b
Sqrt(v) == CHOOSE r \in 0 .. v + 1 : r * r <= v /\ (r + 1) * (r + 1) > v

RECURSIVE RowSum(_, _, _)
RowSum(data, base, n) ==
    IF n = 0 THEN 0 ELSE RowSum(data, base, n - 1) + data[base + n - 1]

RECURSIVE RowSumSq(_, _, _)
RowSumSq(data, base, n) ==
    IF n = 0 THEN 0
    ELSE RowSumSq(data, base, n - 1) + data[base + n - 1] * data[base + n - 1]

\* ------------------------------------------------------------- state
VARIABLES
    \* the kernel's attributes (constructor, lines 14-18) and the call's inputs
    simplified, orig_axis, epsilon, x_shape, X_data, scale_data,
    bias_present, bias_data,
    \* the output indices (1, 2) the caller asked the context for
    requested,
    \* the calling thread: its position, the Status it returned, its locals
    pc, status, axis, norm_count, norm_size, mean_inv_std_dev_dim,
    output_index, mean_data, inv_std_dev_data,
    \* the context's output tensors and the allocator's buffers
    outputs, scratch,
    \* the parallel-for: the task count handed over, each task's position
    \* and locals (mean, mean_square)
    num_tasks, task_state, task_local,
    \* what a read past the end of scale or bias found in this call
    heap_value,
    \* history: the Output calls made, whether line 58 asked for the mean
    \* output, the reads and writes of each task, an allocator request that
    \* was refused, writes through a released or null pointer
    output_calls, mean_requested, reads, writes, alloc_failed, faults,
    \* the previous call's requested outputs and results (repeated calls)
    prev_valid, prev_requested, prev_outputs,
    \* the 64-bit shape specification: shape, axis attribute, position,
    \* norm_count and the task count handed to the parallel-for
    w_shape, w_axis, w_pc, w_norm_count, w_num_tasks

inputs == <<simplified, orig_axis, epsilon, x_shape, X_data, scale_data,
            bias_present, bias_data>>
locals == <<axis, norm_count, norm_size, mean_inv_std_dev_dim, output_index,
            mean_data, inv_std_dev_data>>
memory == <<outputs, scratch>>
pool == <<num_tasks, task_state, task_local>>
history == <<output_calls, mean_requested, reads, writes, alloc_failed, faults>>
previous == <<prev_valid, prev_requested, prev_outputs>>
wide == <<w_shape, w_axis, w_pc, w_norm_count, w_num_tasks>>
vars == <<inputs, requested, pc, status, locals, memory, pool, heap_value,
          history, previous, wide>>

NullPtr == [kind |-> "null", id |-> 0]
OutputPtr(index) == [kind |-> "output", id |-> index]
ScratchPtr(id) == [kind |-> "scratch", id |-> id]

\* ------------------------------------------------------------- the code's pieces
\* lines 31-34: the resolved axis and the two sizes it splits X into
AxisLocalsUnresolvedCount(shape, a) ==
    LET r == HandleNegativeAxis(a, Len(shape))
        ok == IsAxisInRange(r, Len(shape))
    IN [ok |-> ok, axis |-> r,
        norm_count |-> IF ok THEN SizeToDimension(shape, a) ELSE 0,
        norm_size |-> IF ok THEN SizeFromDimension(shape, r) ELSE 0]

AxisLocals(shape, a) ==
    LET r == HandleNegativeAxis(a, Len(shape))
        ok == IsAxisInRange(r, Len(shape))
    IN [ok |-> ok, axis |-> r,
        norm_count |-> IF ok THEN SizeToDimension(shape, r) ELSE 0,
        norm_size |-> IF ok THEN SizeFromDimension(shape, r) ELSE 0]

\* lines 39-47: the shape of the mean and inv_std_dev outputs
MeanInvStdDevDimInclusive(shape, a) ==
    [i \in 1 .. Len(shape) |-> IF i - 1 <= a THEN shape[i] ELSE 1]

MeanInvStdDevDim(shape, a) ==
    [i \in 1 .. Len(shape) |-> IF i - 1 < a THEN shape[i] ELSE 1]

\* OpKernelContext::Output(index, shape): the tensor is created when the
\* caller asked for that output (Y always), and is nullptr otherwise
OutputCreated(req, index) == index = 0 \/ index \in req
Output(outs, req, index, shape) ==
    IF OutputCreated(req, index)
    THEN (index :> [shape |-> shape, data |-> Buffer(Size(shape), UninitValue)]) @@ outs
    ELSE outs

\* line 50, ORT_RETURN_IF_ERROR: whether the call returns the status at once
OrtReturnIfErrorIgnored(ok) == FALSE
OrtReturnIfError(ok) == ~ok

\* line 57: whether the mean output is asked for at all
WantsMeanOutputAlways(simp) == TRUE
WantsMeanOutput(simp) == ~simp

\* lines 62-64, 75-77: the buffer the allocator hands out, owned by a
\* BufferUniquePtr declared in the function's scope (lines 53, 69)
AllocScratchBlockScoped(scr, id, n) ==
    (id :> [live |-> FALSE, data |-> Buffer(n, UninitValue)]) @@ scr
AllocScratch(scr, id, n) ==
    (id :> [live |-> TRUE, data |-> Buffer(n, UninitValue)]) @@ scr

\* the BufferUniquePtr destructors, run when operator() is left
ReleaseScratch(scr) == [id \in DOMAIN scr |-> [scr[id] EXCEPT !.live = FALSE]]

\* line 81: the task count handed to TryBatchParallelFor
NumTasks(count) == StaticCastInt32(Wide(count))

\* lines 83-84: where row task_idx starts in X_data and Y_data
RowOffsetUnscaled(task_idx, size) == task_idx
RowOffset(task_idx, size) == task_idx * size

\* lines 86-94: the row's mean
RowMean(data, base, n) == Div(RowSum(data, base, n), n)

\* lines 95-99: mean_square after the square root
RowMeanSquare(simp, data, base, n, eps) ==
    IF simp
    THEN Sqrt(Div(RowSumSq(data, base, n), n) + eps)
    ELSE Sqrt(Div(RowSumSq(data, base, n), n)
              - RowMean(data, base, n) * RowMean(data, base, n) + eps)

\* lines 29, 102-107: whether the loop reads bias_data
UsesBiasWhenPresent(simp, present) == present
UsesBias(simp, present) == ~simp /\ present

\* lines 102-108: one element of the output row
OutputElement(simp, present, x, mean, mean_square, s, b) ==
    IF simp THEN Div(x, mean_square) * s
    ELSE IF ~present THEN Div(x - mean, mean_square) * s
    ELSE Div(x - mean, mean_square) * s + b

\* scale_data[h], bias_data[h]: past the end the read finds what the heap holds
ReadBuf(buf, h, heap) == IF h \in DOMAIN buf THEN buf[h] ELSE heap

\* lines 111-114: a store through mean_data or inv_std_dev_data
WritePtr(mem, ptr, idx, val) ==
    IF ptr.kind = "output"
    THEN IF idx \in DOMAIN mem.outs[ptr.id].data
         THEN [mem EXCEPT !.outs[ptr.id].data[idx] = val]
         ELSE [mem EXCEPT !.faults = @ \cup {"out_of_bounds"}]
    ELSE IF ptr.kind = "scratch"
    THEN IF ~mem.scr[ptr.id].live
         THEN [mem EXCEPT !.faults = @ \cup {"use_after_free"}]
         ELSE IF idx \in DOMAIN mem.scr[ptr.id].data
         THEN [mem EXCEPT !.scr[ptr.id].data[idx] = val]
         ELSE [mem EXCEPT !.faults = @ \cup {"out_of_bounds"}]
    ELSE [mem EXCEPT !.faults = @ \cup {"null_write"}]

\* ------------------------------------------------------------- Init
CallInit ==
    /\ pc = "start"
    /\ status = "none"
    /\ axis = 0
    /\ norm_count = 0
    /\ norm_size = 0
    /\ mean_inv_std_dev_dim = <<>>
    /\ output_index = 1
    /\ mean_data = NullPtr
    /\ inv_std_dev_data = NullPtr
    /\ outputs = EmptyMap
    /\ scratch = EmptyMap
    /\ num_tasks = 0
    /\ task_state = EmptyMap
    /\ task_local = EmptyMap
    /\ heap_value = Unread
    /\ output_calls = {}
    /\ mean_requested = FALSE
    /\ reads = {}
    /\ writes = {}
    /\ alloc_failed = FALSE
    /\ faults = {}

WideIdle ==
    /\ w_shape = <<>>
    /\ w_axis = 0
    /\ w_pc = "off"
    /\ w_norm_count = Pow2(0)
    /\ w_num_tasks = 0

Init ==
    /\ simplified \in BOOLEAN
    /\ x_shape \in Shapes
    /\ orig_axis \in (0 - MaxRank - 1) .. (MaxRank + 1)
    /\ epsilon \in Epsilons
    /\ X_data = Buffer(Size(x_shape), XPattern)
    /\ \E n \in 1 .. MaxLen : scale_data = Buffer(n, ScalePattern)
    /\ \E n \in 0 .. MaxLen :
          /\ bias_present = (n > 0)
          /\ bias_data = Buffer(n, BiasPattern)
    /\ requested \in SUBSET {1, 2}
    /\ CallInit
    /\ prev_valid = FALSE
    /\ prev_requested = {}
    /\ prev_outputs = EmptyMap
    /\ WideIdle

\* ------------------------------------------------------------- the calling thread
\* lines 24-47: the inputs, the resolved axis (HandleNegativeAxis fails the
\* call), norm_count and norm_size, the Y output, mean_inv_std_dev_dim
Prepare ==
    /\ pc = "start"
    /\ LET loc == AxisLocals(x_shape, orig_axis) IN
       IF ~loc.ok
       THEN /\ status' = "InvalidArgument"
            /\ pc' = "returned"
            /\ UNCHANGED <<locals, outputs, output_calls>>
       ELSE /\ axis' = loc.axis
            /\ norm_count' = loc.norm_count
            /\ norm_size' = loc.norm_size
            /\ outputs' = Output(outputs, requested, 0, x_shape)
            /\ output_calls' = output_calls \cup {<<0, x_shape>>}
            /\ mean_inv_std_dev_dim' = MeanInvStdDevDim(x_shape, loc.axis)
            /\ pc' = "temp_space"
            /\ UNCHANGED <<status, output_index, mean_data, inv_std_dev_data>>
    /\ UNCHANGED <<inputs, requested, scratch, pool, heap_value, mean_requested,
                   reads, writes, alloc_failed, faults, previous, wide>>

\* lines 49-50: the context hands out its temporary allocator, or an error
GetTempSpaceAllocator ==
    /\ pc = "temp_space"
    /\ \E ok \in BOOLEAN :
          /\ alloc_failed' = (alloc_failed \/ ~ok)
          /\ IF OrtReturnIfError(ok)
             THEN /\ status' = "AllocationFailure"
                  /\ pc' = "returned"
             ELSE /\ pc' = "mean_output"
                  /\ UNCHANGED status
    /\ UNCHANGED <<inputs, requested, locals, memory, pool, heap_value,
                   output_calls, mean_requested, reads, writes, faults,
                   previous, wide>>

\* lines 52-66: mean_data is the mean output, a scratch buffer when the
\* caller declined it, and stays nullptr in simplified mode.  An allocation
\* the allocator cannot satisfy leaves operator() by an exception.
MeanOutput ==
    /\ pc = "mean_output"
    /\ IF WantsMeanOutput(simplified)
       THEN /\ output_calls' =
                   output_calls \cup {<<output_index, mean_inv_std_dev_dim>>}
            /\ mean_requested' = TRUE
            /\ output_index' = output_index + 1
            /\ IF OutputCreated(requested, output_index)
               THEN /\ outputs' = Output(outputs, requested, output_index,
                                         mean_inv_std_dev_dim)
                    /\ mean_data' = OutputPtr(output_index)
                    /\ pc' = "inv_std_dev_output"
                    /\ UNCHANGED <<scratch, status, alloc_failed>>
               ELSE \E ok \in BOOLEAN :
                       IF ok
                       THEN /\ scratch' = AllocScratch(scratch, 1, norm_count)
                            /\ mean_data' = ScratchPtr(1)
                            /\ pc' = "inv_std_dev_output"
                            /\ UNCHANGED <<outputs, status, alloc_failed>>
                       ELSE /\ alloc_failed' = TRUE
                            /\ status' = "AllocationFailure"
                            /\ scratch' = ReleaseScratch(scratch)
                            /\ pc' = "returned"
                            /\ UNCHANGED <<outputs, mean_data>>
       ELSE /\ pc' = "inv_std_dev_output"
            /\ UNCHANGED <<output_calls, mean_requested, output_index, outputs,
                           mean_data, scratch, status, alloc_failed>>
    /\ UNCHANGED <<inputs, requested, axis, norm_count, norm_size,
                   mean_inv_std_dev_dim, inv_std_dev_data, pool, heap_value,
                   reads, writes, faults, previous, wide>>

\* lines 68-78: inv_std_dev_data is the inv_std_dev output, or a scratch buffer
InvStdDevOutput ==
    /\ pc = "inv_std_dev_output"
    /\ output_calls' = output_calls \cup {<<output_index, mean_inv_std_dev_dim>>}
    /\ IF OutputCreated(requested, output_index)
       THEN /\ outputs' = Output(outputs, requested, output_index,
                                 mean_inv_std_dev_dim)
            /\ inv_std_dev_data' = OutputPtr(output_index)
            /\ pc' = "submit"
            /\ UNCHANGED <<scratch, status, alloc_failed>>
       ELSE \E ok \in BOOLEAN :
               IF ok
               THEN /\ scratch' = AllocScratch(scratch, 2, norm_count)
                    /\ inv_std_dev_data' = ScratchPtr(2)
                    /\ pc' = "submit"
                    /\ UNCHANGED <<outputs, status, alloc_failed>>
               ELSE /\ alloc_failed' = TRUE
                    /\ status' = "AllocationFailure"
                    /\ scratch' = ReleaseScratch(scratch)
                    /\ pc' = "returned"
                    /\ UNCHANGED <<outputs, inv_std_dev_data>>
    /\ UNCHANGED <<inputs, requested, axis, norm_count, norm_size,
                   mean_inv_std_dev_dim, output_index, mean_data, pool,
                   heap_value, mean_requested, reads, writes, faults,
                   previous, wide>>

\* lines 80-81: TryBatchParallelFor is handed static_cast<int32_t>(norm_count)
\* tasks; it runs none when that is not positive
Submit ==
    /\ pc = "submit"
    /\ num_tasks' = NumTasks(norm_count)
    /\ task_state' = [i \in 0 .. NumTasks(norm_count) - 1 |-> "todo"]
    /\ task_local' = [i \in 0 .. NumTasks(norm_count) - 1 |->
                         [mean |-> 0, mean_square |-> 0]]
    /\ pc' = "parallel"
    /\ UNCHANGED <<inputs, requested, status, locals, memory, heap_value,
                   history, previous, wide>>

\* ------------------------------------------------------------- the per-row task
Running == {i \in DOMAIN task_state : task_state[i] = "running"}

\* lines 83-99: a worker takes row task_idx, accumulates over the row and
\* leaves mean and mean_square (after the square root) in the task's locals
TaskBegin(task_idx) ==
    /\ pc = "parallel"
    /\ task_idx \in DOMAIN task_state
    /\ task_state[task_idx] = "todo"
    /\ Cardinality(Running) < MaxWorkers
    /\ LET base == RowOffset(task_idx, norm_size) IN
       /\ task_local' = [task_local EXCEPT ![task_idx] =
              [mean |-> RowMean(X_data, base, norm_size),
               mean_square |-> RowMeanSquare(simplified, X_data, base,
                                             norm_size, epsilon)]]
       /\ reads' = reads \cup
              {<<task_idx, "X", base + h>> : h \in 0 .. norm_size - 1}
    /\ task_state' = [task_state EXCEPT ![task_idx] = "running"]
    /\ UNCHANGED <<inputs, requested, pc, status, locals, memory, num_tasks,
                   heap_value, output_calls, mean_requested, writes,
                   alloc_failed, faults, previous, wide>>

\* lines 101-114: the task writes its row of Y, then its mean and
\* inv_std_dev slots
TaskEnd(task_idx) ==
    /\ pc = "parallel"
    /\ task_idx \in DOMAIN task_state
    /\ task_state[task_idx] = "running"
    /\ LET base == RowOffset(task_idx, norm_size)
           uses_bias == UsesBias(simplified, bias_present)
           past_end == \/ BufLen(scale_data) < norm_size
                       \/ uses_bias /\ BufLen(bias_data) < norm_size
       IN  \E heap \in (IF past_end /\ heap_value = Unread
                        THEN Garbage ELSE {heap_value}) :
           LET mean == task_local[task_idx].mean
               mean_square == task_local[task_idx].mean_square
               y(h) == OutputElement(simplified, bias_present, X_data[base + h],
                                     mean, mean_square,
                                     ReadBuf(scale_data, h, heap),
                                     IF uses_bias
                                     THEN ReadBuf(bias_data, h, heap) ELSE 0)
               mem0 == [outs |-> [outputs EXCEPT ![0].data =
                                    [k \in DOMAIN @ |->
                                       IF k >= base /\ k < base + norm_size
                                       THEN y(k - base) ELSE @[k]]],
                        scr |-> scratch,
                        faults |-> faults]
               mem1 == IF mean_data.kind # "null"
                       THEN WritePtr(mem0, mean_data, task_idx, mean)
                       ELSE mem0
               mem2 == WritePtr(mem1, inv_std_dev_data, task_idx,
                                Div(1, mean_square))
           IN  /\ heap_value' = heap
               /\ outputs' = mem2.outs
               /\ scratch' = mem2.scr
               /\ faults' = mem2.faults
               /\ reads' = reads
                    \cup {<<task_idx, "X", base + h>> : h \in 0 .. norm_size - 1}
                    \cup {<<task_idx, "scale", h>> : h \in 0 .. norm_size - 1}
                    \cup (IF uses_bias
                          THEN {<<task_idx, "bias", h>> : h \in 0 .. norm_size - 1}
                          ELSE {})
               /\ writes' = writes
                    \cup {<<task_idx, "Y", base + h>> : h \in 0 .. norm_size - 1}
                    \cup (IF mean_data.kind # "null"
                          THEN {<<task_idx, "mean", task_idx>>} ELSE {})
                    \cup {<<task_idx, "inv_std_dev", task_idx>>}
    /\ task_state' = [task_state EXCEPT ![task_idx] = "done"]
    /\ UNCHANGED <<inputs, requested, pc, status, locals, num_tasks, task_local,
                   output_calls, mean_requested, alloc_failed, previous, wide>>

\* lines 116-119: TryBatchParallelFor returns when every task has run; the
\* call returns OK and the BufferUniquePtr locals release the scratch buffers
JoinAndReturn ==
    /\ pc = "parallel"
    /\ \A i \in DOMAIN task_state : task_state[i] = "done"
    /\ status' = "OK"
    /\ scratch' = ReleaseScratch(scratch)
    /\ pc' = "returned"
    /\ UNCHANGED <<inputs, requested, locals, outputs, pool, heap_value,
                   history, previous, wide>>

Next ==
    \/ Prepare
    \/ GetTempSpaceAllocator
    \/ MeanOutput
    \/ InvStdDevOutput
    \/ Submit
    \/ \E i \in 0 .. MaxElems : TaskBegin(i)
    \/ \E i \in 0 .. MaxElems : TaskEnd(i)
    \/ JoinAndReturn

Spec == Init /\ [][Next]_vars

\* ------------------------------------------------------------- repeated calls
\* LayerNormImpl::Compute is const and keeps only axis_, epsilon_ and
\* simplified_ (lines 14-18, 122-134): the kernel is called again on the
\* same inputs, the caller free to ask for other outputs
Recompute ==
    /\ pc = "returned"
    /\ status = "OK"
    /\ prev_valid' = TRUE
    /\ prev_requested' = requested
    /\ prev_outputs' = outputs
    /\ requested' \in SUBSET {1, 2}
    /\ pc' = "start"
    /\ status' = "none"
    /\ axis' = 0
    /\ norm_count' = 0
    /\ norm_size' = 0
    /\ mean_inv_std_dev_dim' = <<>>
    /\ output_index' = 1
    /\ mean_data' = NullPtr
    /\ inv_std_dev_data' = NullPtr
    /\ outputs' = EmptyMap
    /\ scratch' = EmptyMap
    /\ num_tasks' = 0
    /\ task_state' = EmptyMap
    /\ task_local' = EmptyMap
    /\ heap_value' = Unread
    /\ output_calls' = {}
    /\ mean_requested' = FALSE
    /\ reads' = {}
    /\ writes' = {}
    /\ alloc_failed' = FALSE
    /\ faults' = {}
    /\ UNCHANGED <<inputs, wide>>

NextRepeat ==
    \/ Next
    \/ Recompute

SpecRepeat == Init /\ [][NextRepeat]_vars

\* ------------------------------------------------------------- 64-bit shapes
\* Lines 31-34 and 80-81 on shapes whose sizes need all of int64_t: only
\* the shape, the axis, norm_count and the task count are held.
WideDims == {Pow2(0), Pow2(1), [m |-> 3, e |-> 0], Pow2(16), Pow2(31), Pow2(32)}
WideShapesOfRank(r) ==
    {s \in [1 .. r -> WideDims] : FitsInt64(WProdRange(s, 1, r))}
WideShapes == UNION {WideShapesOfRank(r) : r \in 1 .. WideMaxRank}

InitWide ==
    /\ simplified = FALSE
    /\ x_shape = <<1>>
    /\ orig_axis = 0
    /\ epsilon \in Epsilons
    /\ X_data = Buffer(1, XPattern)
    /\ scale_data = Buffer(1, ScalePattern)
    /\ bias_present = FALSE
    /\ bias_data = Buffer(0, BiasPattern)
    /\ requested = {}
    /\ pc = "idle"
    /\ status = "none"
    /\ axis = 0
    /\ norm_count = 0
    /\ norm_size = 0
    /\ mean_inv_std_dev_dim = <<>>
    /\ output_index = 1
    /\ mean_data = NullPtr
    /\ inv_std_dev_data = NullPtr
    /\ outputs = EmptyMap
    /\ scratch = EmptyMap
    /\ num_tasks = 0
    /\ task_state = EmptyMap
    /\ task_local = EmptyMap
    /\ heap_value = Unread
    /\ output_calls = {}
    /\ mean_requested = FALSE
    /\ reads = {}
    /\ writes = {}
    /\ alloc_failed = FALSE
    /\ faults = {}
    /\ prev_valid = FALSE
    /\ prev_requested = {}
    /\ prev_outputs = EmptyMap
    /\ w_shape \in WideShapes
    /\ w_axis \in (0 - WideMaxRank - 1) .. (WideMaxRank + 1)
    /\ w_pc = "start"
    /\ w_norm_count = Pow2(0)
    /\ w_num_tasks = 0

\* lines 31-33: the resolved axis and norm_count, an int64_t
WidePrepare ==
    /\ w_pc = "start"
    /\ LET r == HandleNegativeAxis(w_axis, Len(w_shape)) IN
       IF IsAxisInRange(r, Len(w_shape))
       THEN /\ w_norm_count' = WProdRange(w_shape, 1, r)
            /\ w_pc' = "submit"
       ELSE /\ w_pc' = "returned"
            /\ UNCHANGED w_norm_count
    /\ UNCHANGED <<inputs, requested, pc, status, locals, memory, pool,
                   heap_value, history, previous, w_shape, w_axis, w_num_tasks>>

\* lines 80-81: the task count is static_cast<int32_t>(norm_count)
WideSubmit ==
    /\ w_pc = "submit"
    /\ w_num_tasks' = StaticCastInt32(w_norm_count)
    /\ w_pc' = "parallel"
    /\ UNCHANGED <<inputs, requested, pc, status, locals, memory, pool,
                   heap_value, history, previous, w_shape, w_axis, w_norm_count>>

NextWide ==
    \/ WidePrepare
    \/ WideSubmit

SpecWide == InitWide /\ [][NextWide]_vars

\* ------------------------------------------------------------- what the claims speak of
\* the axis attribute resolved against X's rank
ResolvedAxis == IF orig_axis < 0 THEN orig_axis + Len(x_shape) ELSE orig_axis
AxisAccepted == ResolvedAxis >= 0 /\ ResolvedAxis <= Len(x_shape)
\* the product of X's dimensions below, and at and after, the resolved axis
RowCount == ProdRange(x_shape, 1, ResolvedAxis)
RowSize == ProdRange(x_shape, ResolvedAxis + 1, Len(x_shape))

\* scale, or a bias that non-simplified mode would use, is not of RowSize
LengthMismatch ==
    /\ AxisAccepted
    /\ \/ BufLen(scale_data) # RowSize
       \/ ~simplified /\ bias_present /\ BufLen(bias_data) # RowSize

\* the reads of scale and bias at an index past their end
PastEndReads ==
    {r \in reads : \/ r[2] = "scale" /\ r[3] >= BufLen(scale_data)
                   \/ r[2] = "bias" /\ r[3] >= BufLen(bias_data)}

Returned == pc = "returned"
Succeeded == pc = "returned" /\ status = "OK"
AllTasksDone == \A i \in DOMAIN task_state : task_state[i] = "done"
ScratchReleased == \A id \in DOMAIN scratch : ~scratch[id].live
ScratchLive == \A id \in DOMAIN scratch : scratch[id].live

\* C1: whenever scale (or a bias that is used) has a length other than
\* norm_size, Compute fails with ShapeMismatch (unless the allocator was
\* refused first) and no task reads scale or bias past its end.
C1_ShapeMismatchRejected ==
    LengthMismatch =>
        /\ PastEndReads = {}
        /\ (Returned /\ ~alloc_failed) => status = "ShapeMismatch"

\* C2: the axis is resolved as axis + rank when negative; outside [0, rank]
\* the call fails with InvalidArgument before any output exists or is
\* written; otherwise axis is the resolved axis, in [0, rank], and
\* norm_count and norm_size are the products below and from it.
C2_AxisResolvedOrRejected ==
    pc # "start" =>
        IF AxisAccepted
        THEN /\ status # "InvalidArgument"
             /\ axis = ResolvedAxis
             /\ 0 <= axis /\ axis <= Len(x_shape)
             /\ norm_count = RowCount
             /\ norm_size = RowSize
        ELSE /\ Returned
             /\ status = "InvalidArgument"
             /\ outputs = EmptyMap
             /\ scratch = EmptyMap
             /\ task_state = EmptyMap
             /\ writes = {}

C2_Witness ==
    /\ Succeeded
    /\ orig_axis = 0 - 1
    /\ Len(x_shape) = 2
    /\ norm_count = 2
    /\ norm_size = 2

C4_ForkJoin ==
    /\ "use_after_free" \notin faults
    /\ ~AllTasksDone => pc = "parallel" /\ ScratchLive
    /\ pc = "parallel" => DOMAIN task_state = 0 .. num_tasks - 1
    /\ Returned => AllTasksDone /\ ScratchReleased
    /\ Succeeded => DOMAIN task_state = 0 .. num_tasks - 1

C4_Witness ==
    /\ Succeeded
    /\ num_tasks >= 2
    /\ DOMAIN scratch = {1, 2}
    /\ \A i \in 0 .. num_tasks - 1 :
          scratch[1].data[i] # Uninit /\ scratch[2].data[i] # Uninit

\* C5: for fixed inputs the final contents of Y, mean and inv_std_dev are
\* the same in every call, whatever the workers and the order of the tasks:
\* a call that asks for the same outputs as the previous one ends with the
\* same output tensors.
C5_SchedulingIndependent ==
    (Succeeded /\ prev_valid /\ prev_requested = requested) =>
        outputs = prev_outputs

\* C6: for the same inputs the values of Y are the same whichever of the
\* mean and inv_std_dev outputs the caller asks for: a call ends with the
\* Y of the previous call.
C6_RequestIndependentY ==
    (Succeeded /\ prev_valid) => outputs[0].data = prev_outputs[0].data

\* With scale and bias of norm_size elements, as Compute's preconditions
\* ask, repeated calls do end with the same outputs.
AgreeingLengthsSchedulingIndependent ==
    ~LengthMismatch => C5_SchedulingIndependent
AgreeingLengthsRequestIndependentY ==
    ~LengthMismatch => C6_RequestIndependentY

C8_OutputShapes ==
    Succeeded =>
        /\ outputs[0].shape = x_shape
        /\ BufLen(outputs[0].data) = Size(x_shape)
        /\ \A c \in output_calls :
              c[1] # 0 =>
                 /\ Len(c[2]) = Len(x_shape)
                 /\ \A i \in 1 .. Len(x_shape) :
                       c[2][i] = IF i - 1 < ResolvedAxis THEN x_shape[i] ELSE 1
        /\ \A idx \in DOMAIN outputs \ {0} :
              /\ <<idx, outputs[idx].shape>> \in output_calls
              /\ DOMAIN outputs[idx].data = 0 .. RowCount - 1

C8_Witness ==
    /\ Succeeded
    /\ x_shape = <<2, 2>>
    /\ ResolvedAxis = 1
    /\ DOMAIN outputs = {0, 1, 2}

\* C9: the number of tasks handed to the parallel-for is norm_count, for
\* every norm_count an int64_t shape yields.
C9_EveryRowSubmitted ==
    w_pc = "parallel" =>
        /\ w_num_tasks >= 0
        /\ Wide(w_num_tasks) = w_norm_count

\* C10: the task of row i writes only Y[i*norm_size .. (i+1)*norm_size-1]
\* and the mean and inv_std_dev slots i; no two tasks write the same
\* location, no task reads a location a task writes, the only elements of
\* Y that are written are those of rows whose task has written, and X,
\* scale and bias keep their contents.
C10_TaskWriteSets ==
    /\ \A w \in writes :
          /\ w[1] \in 0 .. RowCount - 1
          /\ IF w[2] = "Y"
             THEN w[1] * RowSize <= w[3] /\ w[3] < (w[1] + 1) * RowSize
             ELSE w[2] \in {"mean", "inv_std_dev"} /\ w[3] = w[1]
    /\ \A w1 \in writes : \A w2 \in writes :
          w1[1] # w2[1] => <<w1[2], w1[3]>> # <<w2[2], w2[3]>>
    /\ \A w \in writes : \A r \in reads : <<w[2], w[3]>> # <<r[2], r[3]>>
    /\ 0 \in DOMAIN outputs =>
          \A k \in DOMAIN outputs[0].data :
             outputs[0].data[k] # Uninit =>
                \E i \in DOMAIN task_state :
                   /\ task_state[i] = "done"
                   /\ i * RowSize <= k /\ k < (i + 1) * RowSize
    /\ X_data = Buffer(Size(x_shape), XPattern)
    /\ scale_data = Buffer(BufLen(scale_data), ScalePattern)
    /\ bias_data = Buffer(BufLen(bias_data), BiasPattern)

C10_Witness ==
    /\ pc = "parallel"
    /\ RowSize = 2
    /\ \E i \in DOMAIN task_state : \E j \in DOMAIN task_state :
          /\ task_state[i] = "done"
          /\ task_state[j] = "running"
          /\ <<i, "Y", i * RowSize + 1>> \in writes

=============================================================================
